---- MODULE Spec2Model ----
(***************************************************************************)
(* Model of r2env's PackageManager (src/r2env/package_manager.py):         *)
(*   - the catalog builder update_radare2_profiles, with the asset         *)
(*     classification it performs inline, and                              *)
(*   - the install_package / uninstall_package state machine over the      *)
(*     directories below the r2env path.                                   *)
(*                                                                         *)
(* Text is modelled as a sequence of symbols: a symbol is one of the       *)
(* separator characters "-", "_", "." or a chunk of other characters.      *)
(* File names and release tags are such sequences, so that splitext,       *)
(* replace and split are computed as the code computes them.               *)
(***************************************************************************)
EXTENDS Integers, Sequences, FiniteSets, TLC

VARIABLES
    gh_release_info,  \* the upstream release list update_radare2_profiles reads
    profiles_json,    \* <r2env_path>/profiles.json: <<>> if absent, else <<catalog>>
    update_result,    \* how the last update_radare2_profiles call ended
    packages,         \* self._packages, the catalog loaded by the constructor
    dist,             \* what host_distname() returns on this machine
    versions,         \* names of the directories under <r2env_path>/versions
    log_dir,          \* whether <r2env_path>/log exists
    logfiles,         \* <<profile, version>> pairs with a build log under log/
    src_dirs,         \* names of the directories under <r2env_path>/src
    pkgfiles,         \* artifact files downloaded into <r2env_path>/src
    bin_dir,          \* whether <r2env_path>/bin exists
    sys_pkgs,         \* packages the native package manager has installed
    built,            \* names of the directories under versions/ that hold build output
    last              \* the last install/uninstall call: arguments, outcome, calls

catalog_vars == <<gh_release_info, profiles_json, update_result>>
fs_vars == <<versions, log_dir, logfiles, src_dirs, pkgfiles, bin_dir, sys_pkgs, built>>
install_vars == <<packages, dist, versions, log_dir, logfiles, src_dirs, pkgfiles,
                  bin_dir, sys_pkgs, built, last>>
vars == <<gh_release_info, profiles_json, update_result, packages, dist, versions,
          log_dir, logfiles, src_dirs, pkgfiles, bin_dir, sys_pkgs, built, last>>

----------------------------------------------------------------------------
(* Text helpers (Python str / list / os.path semantics)                    *)

\* str.replace(old, new) for one-character old and new
replace(s, old, new) == [i \in 1..Len(s) |-> IF s[i] = old THEN new ELSE s[i]]

\* str.split(sep): the pieces between the occurrences of sep, empty pieces kept
RECURSIVE split(_, _)
split(s, sep) ==
    IF \A i \in 1..Len(s) : s[i] # sep
    THEN <<s>>
    ELSE LET k == CHOOSE i \in 1..Len(s) :
                      s[i] = sep /\ \A j \in 1..(i-1) : s[j] # sep
         IN  <<SubSeq(s, 1, k-1)>> \o split(SubSeq(s, k+1, Len(s)), sep)

\* os.path.splitext on a name without directory separators: the extension
\* starts at the last dot, unless only dots precede that dot
splitext(p) ==
    LET dots == {i \in 1..Len(p) : p[i] = "."}
    IN  IF dots = {}
        THEN <<p, <<>>>>
        ELSE LET dotIndex == CHOOSE i \in dots : \A j \in dots : j <= i
             IN  IF \E f \in 1..(dotIndex-1) : p[f] # "."
                 THEN <<SubSeq(p, 1, dotIndex-1), SubSeq(p, dotIndex, Len(p))>>
                 ELSE <<p, <<>>>>

\* x in list
contains(list, x) == \E i \in 1..Len(list) : list[i] = x

\* a removal that drops every occurrence of x
remove_all(list, x) == SelectSeq(list, LAMBDA y : y # x)

\* list.remove(x): drops the first occurrence of x (x is in list)
remove(list, x) ==
    LET k == CHOOSE i \in 1..Len(list) :
                 list[i] = x /\ \A j \in 1..(i-1) : list[j] # x
    IN  SubSeq(list, 1, k-1) \o SubSeq(list, k+1, Len(list))

\* list[::-1]
reversed(list) == [i \in 1..Len(list) |-> list[Len(list) + 1 - i]]

\* an assignment that keeps the value of an existing key
RECURSIVE dict_setdefault(_, _, _)
dict_setdefault(d, key, value) ==
    IF d = <<>> THEN << <<key, value>> >>
    ELSE IF d[1][1] = key THEN d
    ELSE <<d[1]>> \o dict_setdefault(Tail(d), key, value)

\* d[key] = value on a dict kept as a sequence of <<key, value>> pairs in
\* insertion order: an existing key keeps its place
RECURSIVE dict_set(_, _, _)
dict_set(d, key, value) ==
    IF d = <<>> THEN << <<key, value>> >>
    ELSE IF d[1][1] = key THEN << <<key, value>> >> \o Tail(d)
    ELSE <<d[1]>> \o dict_set(Tail(d), key, value)

dict_keys(d) == {d[i][1] : i \in 1..Len(d)}

dict_get(d, key) == d[CHOOSE i \in 1..Len(d) : d[i][1] = key][2]

----------------------------------------------------------------------------
(* Catalog builder                                                         *)

radare2 == <<"radare2">>

\* the table of update_radare2_profiles: per extension, the platforms in
\* declaration order, each with its candidate residual token lists
\* a table in which the residual 'amd64' of a .pkg names two platforms
VERSION_FILTERS_overlapping(asset_ext) ==
    IF asset_ext = <<".", "zip">> THEN
        << <<"w32", { << <<"w32">> >> }>>,
           <<"w64", { << <<"w64">> >> }>> >>
    ELSE IF asset_ext = <<".", "deb">> THEN
        << <<"deb_i386", { << <<"i386">> >> }>>,
           <<"deb_x64",  { << <<"amd64">> >> }>> >>
    ELSE IF asset_ext = <<".", "pkg">> THEN
        << <<"mac_arm64", { << <<"m1">> >>, << <<"amd64">> >> }>>,
           <<"mac_x64",   { <<>>, << <<"amd64">> >>, << <<"x64">> >>, << <<"macos">> >> }>> >>
    ELSE <<>>

VERSION_FILTERS(asset_ext) ==
    IF asset_ext = <<".", "zip">> THEN
        << <<"w32", { << <<"w32">> >> }>>,
           <<"w64", { << <<"w64">> >> }>> >>
    ELSE IF asset_ext = <<".", "deb">> THEN
        << <<"deb_i386", { << <<"i386">> >> }>>,
           <<"deb_x64",  { << <<"amd64">> >> }>> >>
    ELSE IF asset_ext = <<".", "pkg">> THEN
        << <<"mac_arm64", { << <<"m1">> >> }>>,
           <<"mac_x64",   { <<>>, << <<"amd64">> >>, << <<"x64">> >>, << <<"macos">> >> }>> >>
    ELSE <<>>

\* the platform the loop over the table's items stops at, "none" if it ends
RECURSIVE first_match(_, _)
first_match(items, asset_ref) ==
    IF items = <<>> THEN "none"
    ELSE IF asset_ref \in items[1][2] THEN items[1][1]
    ELSE first_match(Tail(items), asset_ref)

\* a name filter that looks for 'radare2' anywhere among the tokens
classify_name_anywhere(tag_name, asset_name) ==
    LET parts     == splitext(asset_name)
        asset_ext == parts[2]
        tokens    == split(replace(parts[1], "_", "-"), "-")
    IN  IF ~contains(tokens, radare2) THEN "none"
        ELSE IF ~contains(tokens, tag_name) THEN "none"
        ELSE LET asset_ref == remove(remove(tokens, radare2), tag_name)
             IN  first_match(VERSION_FILTERS(asset_ext), asset_ref)

\* the body of the loop over a release's assets: the platform under which the
\* asset is recorded, "none" if it is skipped
classify(tag_name, asset_name) ==
    LET parts     == splitext(asset_name)
        asset_ext == parts[2]
        tokens    == split(replace(parts[1], "_", "-"), "-")
    IN  IF tokens[1] # radare2 THEN "none"
        ELSE IF ~contains(tokens, tag_name) THEN "none"
        ELSE LET asset_ref == remove(remove(tokens, radare2), tag_name)
             IN  first_match(VERSION_FILTERS(asset_ext), asset_ref)

\* version['packages'] after the assets of a release have been processed in order
RECURSIVE version_packages(_, _, _)
version_packages(tag_name, assets, acc) ==
    IF assets = <<>> THEN acc
    ELSE LET platform == classify(tag_name, assets[1])
         IN  version_packages(tag_name, Tail(assets),
                 IF platform = "none" THEN acc
                 ELSE dict_set(acc, platform, assets[1]))

\* radare2_versions when the loop over the releases ends
radare2_versions(releases) ==
    << [id |-> <<"git">>, packages |-> <<>>] >> \o
    [i \in 1..Len(releases) |->
        [id |-> releases[i].tag_name,
         packages |-> version_packages(releases[i].tag_name, releases[i].assets, <<>>)]]

source_only(name, source) ==
    [name |-> name, source |-> source,
     versions |-> << [id |-> <<"git">>, packages |-> <<>>] >>]

\* the profiles dict, in key order
profiles(releases) ==
    << source_only(<<"r2frida">>, "https://github.com/nowsecure/r2frida"),
       source_only(<<"r2dec">>, "https://github.com/wargio/r2dec-js"),
       source_only(<<"r2yara">>, "https://github.com/radareorg/r2yara"),
       source_only(<<"r2ghidra">>, "https://github.com/radareorg/r2ghidra"),
       source_only(<<"r0">>, "https://github.com/radareorg/r0"),
       [name |-> radare2, source |-> "https://github.com/radareorg/radare2",
        versions |-> reversed(radare2_versions(releases))] >>

----------------------------------------------------------------------------
(* Inputs of the catalog builder                                           *)

MaxTokens == 3     \* tokens in the stem of a generated asset name
MaxAssets == 2     \* assets of a release
MaxReleases == 2   \* releases in the upstream list

Tag590 == <<"5", ".", "9", ".", "0">>
Tag588 == <<"5", ".", "8", ".", "8">>
Tag6 == <<"6">>
Tags == {Tag590, Tag588, Tag6}

TokenPool == {radare2, Tag590, <<"w32">>, <<"w64">>, <<"i386">>, <<"amd64">>,
              <<"m1">>, <<"x64">>, <<"macos">>, <<"android">>, <<"r2ios">>}
ExtPool == {<<>>, <<".", "zip">>, <<".", "deb">>, <<".", "pkg">>, <<".", "apk">>}
Separators == {"-", "_"}

\* tokens joined by one separator
RECURSIVE join(_, _)
join(tokens, sep) ==
    IF Len(tokens) = 1 THEN tokens[1]
    ELSE tokens[1] \o <<sep>> \o join(Tail(tokens), sep)

TokenLists == UNION {[1..n -> TokenPool] : n \in 1..MaxTokens}

\* every name <token><sep>...<token><ext> over the pools
AssetNames ==
    {join(ts, sep) \o ext : ts \in TokenLists, sep \in Separators, ext \in ExtPool}

\* the assets a release of the given tag is drawn from in the multi-release
\* runs: two names of the same platform and one of another for 5.9.0, fewer
\* for the other tags
ReleaseAssets(tag) ==
    IF tag = Tag590 THEN
        { <<"radare2", "-">> \o tag \o <<".", "pkg">>,
          <<"radare2", "_">> \o tag \o <<"_", "amd64", ".", "pkg">>,
          <<"radare2", "-">> \o tag \o <<"-", "w64", ".", "zip">> }
    ELSE IF tag = Tag588 THEN
        { <<"radare2", "-">> \o tag \o <<"-", "macos", ".", "pkg">>,
          <<"radare2", "-", "x64", "-">> \o tag \o <<".", "pkg">> }
    ELSE { <<"radare2", "-">> \o tag \o <<"-", "w64", ".", "zip">> }

AssetLists(tag) == UNION {[1..n -> ReleaseAssets(tag)] : n \in 0..MaxAssets}

Releases == UNION {{[tag_name |-> t, assets |-> a] : a \in AssetLists(t)} : t \in Tags}

\* release lists with pairwise distinct tags
ReleaseLists ==
    {rs \in UNION {[1..n -> Releases] : n \in 0..MaxReleases} :
        \A i, j \in 1..Len(rs) : i # j => rs[i].tag_name # rs[j].tag_name}

\* a catalog persisted by an earlier run
OldProfiles == profiles(<< [tag_name |-> Tag588, assets |-> <<>>] >>)

----------------------------------------------------------------------------
(* The installed-package registry and the catalog lookups                  *)

\* f"{profile}@{version}", the name of the directory under versions/
dst_name(profile, version) == profile \o <<"@">> \o version

\* the subdirectories of <r2env_path>/versions
list_installed_packages == versions

if_package_not_available(profile, version) ==
    ~ \E i \in 1..Len(packages) :
          /\ packages[i].name = profile
          /\ \E j \in 1..Len(packages[i].versions) :
                 packages[i].versions[j].id = version

\* the first index a loop with an early return stops at, 0 if it runs out
first_index(hits) ==
    IF hits = {} THEN 0 ELSE CHOOSE i \in hits : \A j \in hits : i <= j

\* <<file name>>, or <<>> for None
get_pkgname(profile, version, cos) ==
    LET p == first_index({i \in 1..Len(packages) : packages[i].name = profile})
    IN  IF p = 0 THEN <<>>
        ELSE LET vs == packages[p].versions
                 v  == first_index({j \in 1..Len(vs) :
                           vs[j].id = version /\ cos \in dict_keys(vs[j].packages)})
             IN  IF v = 0 THEN <<>> ELSE <<dict_get(vs[v].packages, cos)>>

\* a rollback that leaves the directory in place
rmtree_skipped(dirs, name) == dirs

\* shutil.rmtree(dst_dir) guarded by os.path.isdir(dst_dir)
rmtree_if_isdir(dirs, name) == dirs \ {name}

\* os.makedirs(path) guarded by not os.path.isdir(path)
makedirs_if_missing(dirs, name) == dirs \cup {name}

----------------------------------------------------------------------------
(* The strategies install_package and uninstall_package delegate to.  Each *)
(* yields what it returns ("True", "False") or the exception it raises,    *)
(* the external commands it has run, and the files it leaves.  env holds   *)
(* what the external collaborators answer during the call.                 *)

Envs == [download_ok : BOOLEAN, command_ok : BOOLEAN, zip : {"ok", "FileNotFoundError", "IOError", "BadZipFile"},
         has_git : BOOLEAN, has_build_tools : BOOLEAN, rmtree_ok : BOOLEAN]

\* the answers a call can ask for; an answer that is never asked for (the
\* installer's after a failed download, the build's without git, ...) is held
\* at its default
DistEnvs ==
    {e \in Envs : /\ e.has_git /\ e.has_build_tools /\ e.rmtree_ok
                  /\ (~e.download_ok => e.command_ok /\ e.zip = "ok")
                  /\ (e.zip # "ok" => e.command_ok)}
SourceEnvs ==
    {e \in Envs : /\ e.download_ok /\ e.zip = "ok" /\ e.rmtree_ok
                  /\ (~e.has_git => e.has_build_tools /\ e.command_ok)
                  /\ (~e.has_build_tools => e.command_ok)}
UninstallEnvs(use_dist) ==
    {e \in Envs : /\ e.download_ok /\ e.zip = "ok" /\ e.has_git /\ e.has_build_tools
                  /\ (use_dist => e.rmtree_ok) /\ (~use_dist => e.command_ok)}

Result(ret, calls, lf, pf, bd, sp) ==
    [ret |-> ret, calls |-> calls, logfiles |-> lf, pkgfiles |-> pf,
     bin_dir |-> bd, sys_pkgs |-> sp]

\* dist_name in "w64" / dist_name in "android": Python substring tests
in_w64(dist_name) == dist_name = "w64"
in_android(dist_name) == dist_name = "android"

uninstall_from_dist(profile, version, bd, env) ==
    IF dist = "None" THEN Result("TypeError", <<>>, logfiles, pkgfiles, bd, sys_pkgs)
    ELSE IF in_w64(dist) THEN
        IF bd THEN Result("True", <<"rmtree_bin">>, logfiles, pkgfiles, FALSE, sys_pkgs)
        ELSE Result("PackageManagerException:remove_bin", <<"rmtree_bin">>,
                    logfiles, pkgfiles, bd, sys_pkgs)
    ELSE IF dist \in {"mac_x64", "mac_arm64"} THEN
        IF env.command_ok
        THEN Result("True", <<"pkgutil">>, logfiles, pkgfiles, bd, sys_pkgs \ {radare2})
        ELSE Result("False", <<"pkgutil">>, logfiles, pkgfiles, bd, sys_pkgs)
    ELSE IF dist \in {"deb_x64", "deb_i386"} THEN
        IF env.command_ok
        THEN Result("True", <<"dpkg_r">>, logfiles, pkgfiles, bd, sys_pkgs \ {profile})
        ELSE Result("False", <<"dpkg_r">>, logfiles, pkgfiles, bd, sys_pkgs)
    ELSE IF in_android(dist) THEN
        IF env.command_ok
        THEN Result("True", <<"dpkg_r">>, logfiles, pkgfiles, bd, sys_pkgs \ {radare2})
        ELSE Result("False", <<"dpkg_r">>, logfiles, pkgfiles, bd, sys_pkgs)
    ELSE Result("PackageManagerException:os_not_supported", <<>>,
                logfiles, pkgfiles, bd, sys_pkgs)

install_windows_package(pf, env) ==
    IF env.zip = "ok"
    THEN Result("True", <<"download", "unzip">>, logfiles, pf, TRUE, sys_pkgs)
    ELSE IF env.zip = "BadZipFile"
    THEN Result("BadZipFile", <<"download", "unzip">>, logfiles, pf, bin_dir, sys_pkgs)
    ELSE \* FileNotFoundError when the archive is opened, before bin/ is made,
         \* or IOError in a copy, after it: the handler cleans bin/ and raises
         LET u == uninstall_from_dist(radare2, <<"latest">>,
                                      bin_dir \/ env.zip = "IOError", env)
         IN  Result(IF u.ret = "True" THEN "PackageManagerException:windows_package"
                    ELSE u.ret,
                    <<"download", "unzip">> \o u.calls, logfiles, pf, FALSE, sys_pkgs)

install_from_dist(profile, version, env) ==
    LET pkgname == get_pkgname(profile, version, dist)
    IN  IF pkgname = <<>>
        THEN Result("TypeError", <<>>, logfiles, pkgfiles, bin_dir, sys_pkgs)
        ELSE IF ~env.download_ok
        THEN Result("PackageManagerException:download", <<"download">>,
                    logfiles, pkgfiles, bin_dir, sys_pkgs)
        ELSE LET pf == pkgfiles \cup {pkgname[1]}
             IN  IF dist \in {"mac_x64", "mac_arm64"} THEN
                     IF env.command_ok
                     THEN Result("True", <<"download", "installer">>, logfiles, pf,
                                 bin_dir, sys_pkgs \cup {profile})
                     ELSE Result("False", <<"download", "installer">>, logfiles, pf,
                                 bin_dir, sys_pkgs)
                 ELSE IF in_w64(dist) THEN install_windows_package(pf, env)
                 ELSE IF dist \in {"deb_x64", "deb_i386"} THEN
                     IF env.command_ok
                     THEN Result("True", <<"download", "dpkg_i">>, logfiles, pf,
                                 bin_dir, sys_pkgs \cup {profile})
                     ELSE Result("False", <<"download", "dpkg_i">>, logfiles, pf,
                                 bin_dir, sys_pkgs)
                 ELSE IF in_android(dist) THEN
                     IF env.command_ok
                     THEN Result("True", <<"download", "apt_install">>, logfiles, pf,
                                 bin_dir, sys_pkgs \cup {radare2})
                     ELSE Result("False", <<"download", "apt_install">>, logfiles, pf,
                                 bin_dir, sys_pkgs)
                 ELSE Result("PackageManagerException:os_not_supported", <<"download">>,
                             logfiles, pf, bin_dir, sys_pkgs)

\* exit_if_not_exists(tools): raises when a tool is missing
exit_if_not_exists(present) == IF present THEN "found" ELSE "missing"

\* the shell command of a build strategy: its redirection creates the log
\* file, its exit status is the build's
build_command(name, logfile, calls, env) ==
    Result(IF env.command_ok THEN "True" ELSE "False", calls \o <<name>>,
           logfiles \cup {logfile}, pkgfiles, bin_dir, sys_pkgs)

build_using_acr(logfile, calls, env) ==
    IF dist # "None" /\ in_w64(dist)
    THEN Result("PackageManagerException:acr_on_windows", calls,
                logfiles, pkgfiles, bin_dir, sys_pkgs)
    ELSE IF exit_if_not_exists(env.has_build_tools) = "missing"
    THEN Result("MissingTool", calls \o <<"check_make">>,
                logfiles, pkgfiles, bin_dir, sys_pkgs)
    ELSE build_command("acr", logfile, calls \o <<"check_make">>, env)

build_using_meson(logfile, calls, env) ==
    IF exit_if_not_exists(env.has_build_tools) = "missing"
    THEN Result("MissingTool", calls \o <<"check_meson_ninja">>,
                logfiles, pkgfiles, bin_dir, sys_pkgs)
    ELSE build_command("meson", logfile, calls \o <<"check_meson_ninja">>, env)

\* a dispatch that takes the other build strategy
build_from_source_swapped(profile, version, logfile, use_meson, env) ==
    IF exit_if_not_exists(env.has_git) = "missing"
    THEN Result("MissingTool", <<"check_git">>, logfiles, pkgfiles, bin_dir, sys_pkgs)
    ELSE LET calls == <<"check_git", "git_fetch", "git_clean">>
         IN  IF use_meson THEN build_using_acr(logfile, calls, env)
             ELSE build_using_meson(logfile, calls, env)

build_from_source(profile, version, logfile, use_meson, env) ==
    IF exit_if_not_exists(env.has_git) = "missing"
    THEN Result("MissingTool", <<"check_git">>, logfiles, pkgfiles, bin_dir, sys_pkgs)
    ELSE LET calls == <<"check_git", "git_fetch", "git_clean">>
         IN  IF use_meson THEN build_using_meson(logfile, calls, env)
             ELSE build_using_acr(logfile, calls, env)

----------------------------------------------------------------------------
(* install_package and uninstall_package                                   *)

\* the directories as the delegated strategy finds them when it is invoked:
\* which of log/, src/<profile> and versions/<key> exist, and whether
\* versions/<key> holds the output of an earlier build
Start(log, src, dst, files) ==
    [log_dir |-> log, src_dir |-> src, dst_dir |-> dst, dst_files |-> files]

NoStart == Start(FALSE, FALSE, FALSE, FALSE)

Call(op, key, use_meson, use_dist, outcome, calls, start) ==
    [op |-> op, key |-> key, use_meson |-> use_meson, use_dist |-> use_dist,
     outcome |-> outcome, calls |-> calls, start |-> start]

\* the content of versions/ after the preparation of lines 157-158: an
\* existing destination directory is kept as it is
prepare_dst(files, key) == files

\* what install_package does with the strategy's answer: "ok", the
\* exception it raises itself after the rollback, or the strategy's exception
install_outcome(ret, use_dist) ==
    IF ret = "True" THEN "ok"
    ELSE IF ret = "False"
    THEN IF use_dist THEN "PackageManagerException:install_failed"
         ELSE "PackageManagerException:build_failed"
    ELSE ret

\* a rollback that removes the whole versions/ directory
install_versions_wiped(prepared, key, available, ret) ==
    IF ~available THEN {}
    ELSE IF ret = "False" THEN {}
    ELSE prepared

\* the versions/ directory when install_package ends
install_versions(prepared, key, available, ret) ==
    IF ~available THEN rmtree_if_isdir(prepared, key)
    ELSE IF ret = "False" THEN rmtree_if_isdir(prepared, key)
    ELSE prepared

install_package(profile, version, use_meson, use_dist, env) ==
    LET key       == dst_name(profile, version)
        logfile   == <<profile, version>>
        prepared  == makedirs_if_missing(versions, key)
        available == ~if_package_not_available(profile, version)
    IN  \E r \in {IF ~available
                  THEN Result("PackageManagerException:not_available", <<>>,
                              logfiles, pkgfiles, bin_dir, sys_pkgs)
                  ELSE IF use_dist THEN install_from_dist(profile, version, env)
                  ELSE build_from_source(profile, version, logfile, use_meson, env)} :
            /\ log_dir' = TRUE
            /\ src_dirs' = makedirs_if_missing(src_dirs, profile)
            /\ versions' = install_versions(prepared, key, available, r.ret)
            /\ logfiles' = r.logfiles
            /\ pkgfiles' = r.pkgfiles
            /\ bin_dir' = r.bin_dir
            /\ sys_pkgs' = r.sys_pkgs
            /\ built' = (IF r.ret = "True" /\ ~use_dist
                         THEN prepare_dst(built, key) \cup {key}
                         ELSE prepare_dst(built, key))
                        \cap install_versions(prepared, key, available, r.ret)
            /\ last' = Call("install", key, use_meson, use_dist,
                            install_outcome(r.ret, use_dist), r.calls,
                            IF available
                            THEN Start(TRUE, profile \in makedirs_if_missing(src_dirs, profile),
                                       key \in prepared, key \in prepare_dst(built, key))
                            ELSE NoStart)
            /\ UNCHANGED <<packages, dist, catalog_vars>>

\* a lookup that takes every name for installed
pkg_found_always(package_name) == TRUE

\* the loop over list_installed_packages() finds package_name
pkg_found(package_name) == package_name \in list_installed_packages

uninstall_package(package_name, use_dist, env) ==
    IF ~pkg_found(package_name)
    THEN /\ last' = Call("uninstall", package_name, FALSE, use_dist,
                         "PackageManagerException:not_installed", <<>>, NoStart)
         /\ UNCHANGED <<fs_vars, packages, dist, catalog_vars>>
    ELSE IF use_dist
    THEN LET parts == split(package_name, "@")
         IN  \E r \in {uninstall_from_dist(parts[1], parts[2], bin_dir, env)} :
             /\ bin_dir' = r.bin_dir
             /\ sys_pkgs' = r.sys_pkgs
             /\ last' = Call("uninstall", package_name, FALSE, use_dist,
                             IF r.ret \in {"True", "False"} THEN "ok" ELSE r.ret, r.calls,
                             NoStart)
             /\ UNCHANGED <<versions, log_dir, logfiles, src_dirs, pkgfiles, built,
                            packages, dist, catalog_vars>>
    ELSE /\ versions' = IF env.rmtree_ok THEN versions \ {package_name} ELSE versions
         /\ built' = IF env.rmtree_ok THEN built \ {package_name} ELSE built
         /\ last' = Call("uninstall", package_name, FALSE, use_dist,
                         IF env.rmtree_ok THEN "ok"
                         ELSE "PackageManagerException:remove_failed", <<"rmtree">>,
                         NoStart)
         /\ UNCHANGED <<log_dir, logfiles, src_dirs, pkgfiles, bin_dir, sys_pkgs,
                        packages, dist, catalog_vars>>

----------------------------------------------------------------------------
(* update_radare2_profiles                                                 *)

\* what the request for the release list can end in: a decoded list, an
\* exception of requests.get, an exception of raise_for_status
Responses == {"ok", "ConnectionError", "HTTPError"}

\* a failure that leaves an empty profiles.json behind
fetch_failed_truncating(file) == << <<>> >>

\* profiles.json when the request has failed: the exception leaves the
\* method before the file is opened
fetch_failed(file) == file

\* a write that keeps a catalog that is already there
write_profiles_keeping(file, catalog) == IF file = <<>> THEN <<catalog>> ELSE file

\* profiles.json after open(..., 'w') and json.dump
write_profiles(file, catalog) == <<catalog>>

update_radare2_profiles ==
    /\ \E response \in Responses :
          IF response = "ok"
          THEN /\ profiles_json' = write_profiles(profiles_json, profiles(gh_release_info))
               /\ update_result' = "ok"
          ELSE /\ profiles_json' = fetch_failed(profiles_json)
               /\ update_result' = response
    /\ UNCHANGED <<gh_release_info, install_vars>>

\* PackageManager(r2env_path): the constructor loads profiles.json into
\* self._packages and generates the file first if it does not exist; a
\* failed generation leaves no manager, an empty catalog is refused
load_profiles ==
    /\ IF profiles_json = <<>>
       THEN \E response \in Responses :
                IF response = "ok"
                THEN /\ profiles_json' = write_profiles(profiles_json,
                                                        profiles(gh_release_info))
                     /\ update_result' = "ok"
                     /\ packages' = profiles(gh_release_info)
                ELSE /\ profiles_json' = fetch_failed(profiles_json)
                     /\ update_result' = response
                     /\ packages' = packages
       ELSE /\ packages' = IF profiles_json[1] = <<>> THEN packages ELSE profiles_json[1]
            /\ UNCHANGED <<profiles_json, update_result>>
    /\ UNCHANGED <<gh_release_info, dist, fs_vars, last>>

NoCall == Call("none", <<>>, FALSE, FALSE, "none", <<>>, NoStart)

InstallIdle ==
    /\ packages = <<>>
    /\ dist = "None"
    /\ versions = {}
    /\ log_dir = FALSE
    /\ logfiles = {}
    /\ src_dirs = {}
    /\ pkgfiles = {}
    /\ bin_dir = FALSE
    /\ sys_pkgs = {}
    /\ built = {}
    /\ last = NoCall

\* one release with one generated asset: the classification of every name
InitClassify ==
    /\ gh_release_info \in
          {<< [tag_name |-> Tag590, assets |-> <<a>>] >> : a \in AssetNames}
    /\ profiles_json = <<>>
    /\ update_result = "none"
    /\ InstallIdle

InitCatalog ==
    /\ gh_release_info \in ReleaseLists
    /\ profiles_json \in {<<>>, <<OldProfiles>>}
    /\ update_result = "none"
    /\ InstallIdle

NextCatalog == update_radare2_profiles

SpecClassify == InitClassify /\ [][NextCatalog]_vars
SpecCatalog == InitCatalog /\ [][NextCatalog]_vars

----------------------------------------------------------------------------
(* The install/uninstall state machine                                     *)

\* the release list behind the catalog the package manager has loaded
InstallReleases ==
    << [tag_name |-> Tag590,
        assets |-> << <<"radare2", "-">> \o Tag590 \o <<".", "pkg">>,
                      <<"radare2", "-">> \o Tag590 \o <<"-", "w64", ".", "zip">>,
                      <<"radare2", "-">> \o Tag590 \o <<"-", "w32", ".", "zip">>,
                      <<"radare2", "_">> \o Tag590 \o <<"_", "amd64", ".", "deb">> >>] >>

ProfileNames == {radare2, <<"r2frida">>}
VersionNames == {<<"git">>, Tag590}
PackageNames == {dst_name(p, v) : p \in ProfileNames, v \in VersionNames}
Dists == {"w64", "w32", "deb_x64", "mac_x64", "None"}

Init ==
    /\ gh_release_info = InstallReleases
    /\ profiles_json = << profiles(InstallReleases) >>
    /\ update_result = "none"
    /\ packages = profiles(InstallReleases)
    /\ dist \in Dists
    /\ versions = {}
    /\ log_dir = FALSE
    /\ logfiles = {}
    /\ src_dirs = {}
    /\ pkgfiles = {}
    /\ bin_dir = FALSE
    /\ sys_pkgs = {}
    /\ built = {}
    /\ last = NoCall

\* the (use_meson, use_dist) pairs of a call; use_meson is read by the
\* from-source branch only, so it is held at its default with use_dist
InstallModes == {<<FALSE, FALSE>>, <<TRUE, FALSE>>, <<FALSE, TRUE>>}

Install ==
    \E profile \in ProfileNames, version \in VersionNames, mode \in InstallModes :
        \E env \in IF mode[2] THEN DistEnvs ELSE SourceEnvs :
            install_package(profile, version, mode[1], mode[2], env)

Uninstall ==
    \E package_name \in PackageNames, use_dist \in BOOLEAN :
        \E env \in UninstallEnvs(use_dist) :
            uninstall_package(package_name, use_dist, env)

Next == Install \/ Uninstall

Spec == Init /\ [][Next]_vars

----------------------------------------------------------------------------
(* Claims about install_package and uninstall_package (checked under Spec) *)

\* the <<profile, version>> pairs whose directory name is key
KeyParts(key) ==
    {pv \in ProfileNames \X VersionNames : dst_name(pv[1], pv[2]) = key}

LastInstallEnded(outcome) == last.op = "install" /\ last.outcome = outcome

\* C1: when a from-source install ends with the build strategy (default or
\* meson) reporting failure, no directory <package>@<version> exists under
\* versions/, so list_installed_packages does not contain it, while the log
\* directory and the log file of the attempt exist.
C1_BuildFailureRollsBack ==
    LastInstallEnded("PackageManagerException:build_failed") =>
        /\ ~last.use_dist
        /\ last.calls[Len(last.calls)] = (IF last.use_meson THEN "meson" ELSE "acr")
        /\ last.key \notin list_installed_packages
        /\ log_dir
        /\ \A pv \in KeyParts(last.key) : pv \in logfiles

\* a meson build of an already installed package has failed
C1_Witness ==
    /\ LastInstallEnded("PackageManagerException:build_failed")
    /\ last.use_meson
    /\ last.key = dst_name(radare2, Tag590)
    /\ dst_name(radare2, <<"git">>) \in versions

\* the failures of the delegated strategy the install procedure can meet:
\* download error, unsupported platform, Windows archive-copy error,
\* installer non-zero exit, build failure
StrategyFailures ==
    {"PackageManagerException:download", "PackageManagerException:os_not_supported",
     "PackageManagerException:windows_package", "PackageManagerException:install_failed",
     "PackageManagerException:build_failed"}

\* C2: whenever install_package has ended with a failure of the delegated
\* strategy, returned or raised, list_installed_packages does not contain
\* <package>@<version>.
C2_NoDirectoryAfterAnyFailure ==
    (last.op = "install" /\ last.outcome \in StrategyFailures) =>
        last.key \notin list_installed_packages

\* C3: an install_package call for a (package, version) absent from the
\* catalog fails with the unknown-package-version error and leaves the log
\* directory, the source working directories and the versions directory
\* exactly as they were.
C3_UnknownVersionWritesNothing ==
    [][ \A profile \in ProfileNames, version \in VersionNames :
          (/\ if_package_not_available(profile, version)
           /\ last'.op = "install"
           /\ last'.key = dst_name(profile, version))
          => /\ last'.outcome = "PackageManagerException:not_available"
             /\ log_dir' = log_dir
             /\ src_dirs' = src_dirs
             /\ versions' = versions ]_vars

\* C4: after install_package for K has succeeded, list_installed_packages
\* contains K; after uninstall_package for K has completed without error,
\* with use_dist set or not, it no longer contains K.
C4_InstalledThenUninstalled ==
    /\ LastInstallEnded("ok") => last.key \in list_installed_packages
    /\ (last.op = "uninstall" /\ last.outcome = "ok") =>
           last.key \notin list_installed_packages

\* C5: uninstall_package for a key that is not in list_installed_packages
\* fails with the package-not-installed error, runs no platform uninstaller
\* and no removal, and leaves the filesystem unchanged, for either value of
\* use_dist.
C5_UninstallAbsentKey ==
    [][ (last'.op = "uninstall" /\ last'.key \notin list_installed_packages)
          => /\ last'.outcome = "PackageManagerException:not_installed"
             /\ last'.calls = <<>>
             /\ UNCHANGED fs_vars ]_vars

\* an uninstall with use_dist of a key that is absent, next to an installed one
C5_Witness ==
    /\ last.op = "uninstall"
    /\ last.use_dist
    /\ last.outcome = "PackageManagerException:not_installed"
    /\ last.key \notin versions
    /\ versions # {}

\* C6: a from-binary-distribution install of a catalog (package, version)
\* without an artifact for the current platform fails without a download,
\* and afterwards <package>@<version> is not in list_installed_packages.
C6_NoArtifactLeavesNothing ==
    \A pv \in KeyParts(last.key) :
        (/\ last.op = "install"
         /\ last.use_dist
         /\ ~if_package_not_available(pv[1], pv[2])
         /\ get_pkgname(pv[1], pv[2], dist) = <<>>)
        => /\ last.outcome # "ok"
           /\ ~contains(last.calls, "download")
           /\ last.key \notin list_installed_packages

----------------------------------------------------------------------------
(* Claims about update_radare2_profiles (checked under SpecClassify and    *)
(* SpecCatalog).  The reference notions below are stated on the symbols of *)
(* a name, by position, and not through the builder's own operators.       *)

Min(S) == CHOOSE x \in S : \A y \in S : x <= y
Max(S) == CHOOSE x \in S : \A y \in S : y <= x

\* the versions of the radare2 package in the persisted catalog
PersistedVersions ==
    LET cat == profiles_json[1]
    IN  cat[CHOOSE i \in 1..Len(cat) : cat[i].name = radare2].versions

\* the artifact mapping persisted for the release with the given tag
PersistedPackages(tag) ==
    LET vs == PersistedVersions
    IN  vs[CHOOSE j \in 1..Len(vs) : vs[j].id = tag].packages

\* the platforms under which the catalog records the asset for that release
RecordedPlatforms(tag, asset) ==
    LET d == PersistedPackages(tag)
    IN  {d[n][1] : n \in {m \in 1..Len(d) : d[m][2] = asset}}

\* the position of the dot that starts the extension, 0 if there is none
ExtDot(name) ==
    LET dots == {i \in 1..Len(name) : name[i] = "."}
    IN  IF dots # {} /\ (\E f \in 1..(Max(dots) - 1) : name[f] # ".")
        THEN Max(dots) ELSE 0

StemOf(name) == IF ExtDot(name) = 0 THEN name ELSE SubSeq(name, 1, ExtDot(name) - 1)
ExtOf(name) == IF ExtDot(name) = 0 THEN <<>> ELSE SubSeq(name, ExtDot(name), Len(name))

RecognizedExt(name) == ExtOf(name) \in {<<".", "zip">>, <<".", "deb">>, <<".", "pkg">>}

\* the tokens of a stem: the runs between its separators, in order
TokensOf(stem) ==
    LET cuts == {0, Len(stem) + 1} \cup {i \in 1..Len(stem) : stem[i] \in Separators}
        cut(k) == CHOOSE c \in cuts : Cardinality({x \in cuts : x < c}) = k - 1
    IN  [k \in 1..(Cardinality(cuts) - 1) |-> SubSeq(stem, cut(k) + 1, cut(k + 1) - 1)]

FirstTokenIsProject(name) == TokensOf(StemOf(name))[1] = radare2
TagIsToken(tag, name) ==
    LET ts == TokensOf(StemOf(name)) IN \E k \in 1..Len(ts) : ts[k] = tag

DropAt(ts, i) == [k \in 1..(Len(ts) - 1) |-> IF k < i THEN ts[k] ELSE ts[k + 1]]
DropFirst(ts, x) == DropAt(ts, Min({k \in 1..Len(ts) : ts[k] = x}))

\* the reference classification of an asset that passes the name and tag
\* filters: one 'radare2' and one tag token removed, the residual looked up
\* in the table of the asset's extension, the first platform in table order
Reference(tag, name) ==
    LET residual == DropFirst(DropFirst(TokensOf(StemOf(name)), radare2), tag)
        table    == VERSION_FILTERS(ExtOf(name))
        hits     == {n \in 1..Len(table) : residual \in table[n][2]}
    IN  IF hits = {} THEN "none" ELSE table[Min(hits)][1]

Rejected(tag, name) ==
    \/ ~RecognizedExt(name)
    \/ ~FirstTokenIsProject(name)
    \/ ~TagIsToken(tag, name)

W64Zip == <<"radare2", "-">> \o Tag590 \o <<"-", "w64", ".", "zip">>
PlainPkg == <<"radare2", "-">> \o Tag590 \o <<".", "pkg">>
AndroidApk == <<"radare2", "-">> \o Tag590 \o <<"-", "android", ".", "apk">>

OnlyAsset(name) == gh_release_info = << [tag_name |-> Tag590, assets |-> <<name>>] >>

\* C7: the catalog records no platform for an asset whose extension is not
\* .zip, .deb or .pkg, or whose first token is not 'radare2', or whose
\* tokens do not include the release's tag.
C7_RejectedAssetsNotRecorded ==
    update_result = "ok" =>
        \A i \in 1..Len(gh_release_info) :
            \A k \in 1..Len(gh_release_info[i].assets) :
                LET tag  == gh_release_info[i].tag_name
                    name == gh_release_info[i].assets[k]
                IN  Rejected(tag, name) => RecordedPlatforms(tag, name) = {}

\* an asset that fails the name filter only (w64-radare2-5.9.0.zip) is dropped
C7_Witness ==
    /\ update_result = "ok"
    /\ OnlyAsset(<<"w64", "-", "radare2", "-">> \o Tag590 \o <<".", "zip">>)
    /\ PersistedPackages(Tag590) = <<>>

\* C8: an asset that passes the name and tag filters is recorded under the
\* platform of the reference classification, and under none if that is none;
\* radare2-5.9.0-w64.zip is w64, radare2-5.9.0.pkg is mac_x64 and
\* radare2-5.9.0-android.apk is not recorded.
C8_RecordedAsReference ==
    update_result = "ok" =>
        /\ \A i \in 1..Len(gh_release_info) :
               LET tag    == gh_release_info[i].tag_name
                   assets == gh_release_info[i].assets
               IN  (/\ Len(assets) = 1
                    /\ FirstTokenIsProject(assets[1])
                    /\ TagIsToken(tag, assets[1]))
                   => RecordedPlatforms(tag, assets[1]) =
                          (IF Reference(tag, assets[1]) = "none" THEN {}
                           ELSE {Reference(tag, assets[1])})
        /\ OnlyAsset(W64Zip) => PersistedPackages(Tag590) = << <<"w64", W64Zip>> >>
        /\ OnlyAsset(PlainPkg) => PersistedPackages(Tag590) = << <<"mac_x64", PlainPkg>> >>
        /\ OnlyAsset(AndroidApk) => PersistedPackages(Tag590) = <<>>

\* the empty residual of radare2-5.9.0.pkg has been recorded as mac_x64
C8_Witness ==
    /\ update_result = "ok"
    /\ OnlyAsset(PlainPkg)
    /\ RecordedPlatforms(Tag590, PlainPkg) = {"mac_x64"}

\* C9: when several assets of a release classify to the same platform, the
\* version's mapping for that platform holds the one latest in the asset
\* order, and the mapping has one entry per platform.
C9_LastAssetWins ==
    update_result = "ok" =>
        \A i \in 1..Len(gh_release_info) :
            LET tag    == gh_release_info[i].tag_name
                assets == gh_release_info[i].assets
                d      == PersistedPackages(tag)
            IN  /\ \A m, n \in 1..Len(d) : d[m][1] = d[n][1] => m = n
                /\ \A P \in {"w32", "w64", "deb_i386", "deb_x64", "mac_arm64", "mac_x64"} :
                       LET ks == {k \in 1..Len(assets) : classify(tag, assets[k]) = P}
                       IN  ks # {} => <<P, assets[Max(ks)]>> \in {d[n] : n \in 1..Len(d)}

\* two distinct assets of one release are both mac_x64 and the later is kept
C9_Witness ==
    /\ update_result = "ok"
    /\ \E i \in 1..Len(gh_release_info) :
           LET tag    == gh_release_info[i].tag_name
               assets == gh_release_info[i].assets
           IN  /\ Len(assets) = 2
               /\ assets[1] # assets[2]
               /\ classify(tag, assets[1]) = "mac_x64"
               /\ classify(tag, assets[2]) = "mac_x64"
               /\ PersistedPackages(tag) = << <<"mac_x64", assets[2]>> >>

\* C10: the persisted radare2 versions are the 'git' version followed by one
\* version per release in the order the releases were delivered (newest
\* first).
C10_GitThenNewestFirst ==
    update_result = "ok" =>
        [j \in 1..Len(PersistedVersions) |-> PersistedVersions[j].id]
            = <<<<"git">>>> \o
              [i \in 1..Len(gh_release_info) |-> gh_release_info[i].tag_name]

----------------------------------------------------------------------------
(* The package manager across regenerations of the catalog: the upstream   *)
(* list no longer delivers the release the loaded catalog was made from.   *)

ReloadReleases ==
    << [tag_name |-> Tag6,
        assets |-> << <<"radare2", "_">> \o Tag6 \o <<"_", "amd64", ".", "deb">> >>] >>

\* profiles.json is there and loaded, or it is absent and no manager has
\* been constructed yet
InitReload ==
    /\ gh_release_info = ReloadReleases
    /\ profiles_json \in {<<>>, << profiles(InstallReleases) >>}
    /\ update_result = "none"
    /\ packages = IF profiles_json = <<>> THEN <<>> ELSE profiles(InstallReleases)
    /\ dist = "deb_x64"
    /\ versions = {}
    /\ log_dir = FALSE
    /\ logfiles = {}
    /\ src_dirs = {}
    /\ pkgfiles = {}
    /\ bin_dir = FALSE
    /\ sys_pkgs = {}
    /\ built = {}
    /\ last = NoCall

ReloadInstall ==
    /\ packages # <<>>
    /\ \E version \in VersionNames, mode \in InstallModes :
          \E env \in IF mode[2] THEN DistEnvs ELSE SourceEnvs :
              install_package(radare2, version, mode[1], mode[2], env)

ReloadUninstall ==
    /\ packages # <<>>
    /\ \E version \in VersionNames, use_dist \in BOOLEAN :
          \E env \in UninstallEnvs(use_dist) :
              uninstall_package(dst_name(radare2, version), use_dist, env)

NextReload == ReloadInstall \/ ReloadUninstall \/ update_radare2_profiles \/ load_profiles

SpecReload == InitReload /\ [][NextReload]_vars

----------------------------------------------------------------------------
(* Claims about the order of the steps of install_package and about what   *)
(* a call leaves of earlier calls (checked under Spec).                    *)

\* C11: whenever install_package has invoked its download or build strategy,
\* the log directory and the destination directory (and, from source, the
\* source working directory) existed at that moment; and whenever it has
\* ended with a failure of the strategy, the destination directory has been
\* removed.
C11_PreparedFirstRolledBackBeforeReport ==
    /\ (last.op = "install" /\ last.calls # <<>>) =>
           /\ last.start.log_dir
           /\ last.start.dst_dir
           /\ (~last.use_dist => last.start.src_dir)
    /\ (last.op = "install" /\ last.outcome \in StrategyFailures) =>
           last.key \notin versions

\* C12: an install_package call that ends on a missing prerequisite tool
\* has created no log, source or destination directory, has fetched no
\* source and leaves list_installed_packages as it was.
C12_MissingToolBeforeAnyMutation ==
    [][ (last'.op = "install" /\ last'.outcome = "MissingTool")
          => /\ log_dir' = log_dir
             /\ src_dirs' = src_dirs
             /\ versions' = versions
             /\ ~contains(last'.calls, "git_fetch")
             /\ list_installed_packages' = list_installed_packages ]_vars

\* C13: whenever install_package has invoked its strategy, the strategy
\* found the destination directory empty: a directory left by an earlier
\* attempt had been removed and made anew.
C13_StrategyStartsFromEmptyDirectory ==
    (last.op = "install" /\ last.start.dst_dir) => ~last.start.dst_files

\* a from-source install of a catalog entry that met no missing tool
SourceInstallValidated ==
    /\ last.op = "install"
    /\ ~last.use_dist
    /\ last.outcome \notin {"PackageManagerException:not_available", "MissingTool"}

\* C15: a from-source install that passed validation has checked for git,
\* fetched, cleaned and then entered the one build strategy use_meson
\* selects, in this order and each once; none of the other strategy's steps
\* has run; it has succeeded only after that strategy's build command, with
\* the build output in the directory, and a build command reporting failure
\* has made it fail.
C15_FetchCleanThenOneStrategy ==
    SourceInstallValidated =>
        LET fetch    == <<"check_git", "git_fetch", "git_clean">>
            strategy == IF last.use_meson THEN <<"check_meson_ninja", "meson">>
                        ELSE <<"check_make", "acr">>
        IN  /\ \/ last.calls = fetch \o strategy
               \/ /\ last.calls = fetch
                  /\ ~last.use_meson
                  /\ last.outcome = "PackageManagerException:acr_on_windows"
            /\ last.calls = fetch \o strategy =>
                   last.outcome \in {"ok", "PackageManagerException:build_failed"}
            /\ last.outcome = "ok" =>
                   last.key \in built /\ last.key \in list_installed_packages
            /\ last.outcome = "PackageManagerException:build_failed" =>
                   last.key \notin built /\ last.key \notin list_installed_packages

\* a meson build has succeeded after an acr build of another package
C15_Witness ==
    /\ SourceInstallValidated
    /\ last.use_meson
    /\ last.outcome = "ok"
    /\ last.calls = <<"check_git", "git_fetch", "git_clean", "check_meson_ninja", "meson">>
    /\ built \ {last.key} # {}

\* C16: a call of install_package or uninstall_package for key K, whatever
\* its outcome, leaves every other key K' installed iff it was installed.
C16_OtherKeysKeepMembership ==
    [][ \A K \in PackageNames :
          (last'.op \in {"install", "uninstall"} /\ last'.key # K)
          => (K \in list_installed_packages' <=> K \in list_installed_packages) ]_vars

\* an install for one key has been rolled back while another key is installed
C16_Witness ==
    /\ last.op = "install"
    /\ last.outcome = "PackageManagerException:build_failed"
    /\ last.key \notin list_installed_packages
    /\ list_installed_packages # {}

----------------------------------------------------------------------------
(* Claims about the regeneration of the catalog and about the table        *)
(* (checked under SpecCatalog and SpecClassify).                           *)

\* the tags of the delivered releases
DeliveredTags == {gh_release_info[i].tag_name : i \in 1..Len(gh_release_info)}

\* the names of the packages of a catalog, in order
PackageOrder(cat) == [i \in 1..Len(cat) |-> cat[i].name]

RecognizedExts == {<<".", "zip">>, <<".", "deb">>, <<".", "pkg">>}

\* the tokens left of an asset name after one 'radare2' and one tag token
\* have been dropped
Residual(tag, name) == DropFirst(DropFirst(TokensOf(StemOf(name)), radare2), tag)

\* C18: in the table of every recognized extension no residual token
\* sequence is a pattern of two platforms and no platform is listed twice;
\* so an asset that passes the name and tag filters is recorded under the
\* platform of whichever table entry holds its residual, whatever the order
\* the entries are scanned in, and under no other.
C18_TableUnambiguous ==
    /\ \A ext \in RecognizedExts :
           LET table == VERSION_FILTERS(ext)
           IN  \A m, n \in 1..Len(table) :
                   m # n => /\ table[m][2] \cap table[n][2] = {}
                            /\ table[m][1] # table[n][1]
    /\ update_result = "ok" =>
           \A i \in 1..Len(gh_release_info) :
               LET tag    == gh_release_info[i].tag_name
                   assets == gh_release_info[i].assets
               IN  \A k \in 1..Len(assets) :
                       ~Rejected(tag, assets[k]) =>
                           LET table == VERSION_FILTERS(ExtOf(assets[k]))
                           IN  /\ Cardinality(RecordedPlatforms(tag, assets[k])) <= 1
                               /\ \A n \in 1..Len(table) :
                                      Residual(tag, assets[k]) \in table[n][2] =>
                                          RecordedPlatforms(tag, assets[k]) = {table[n][1]}

\* an asset whose residual 'amd64' is in the .deb and the .pkg table is
\* recorded under the platform of its own extension
C18_Witness ==
    /\ update_result = "ok"
    /\ OnlyAsset(<<"radare2", "-">> \o Tag590 \o <<"-", "amd64", ".", "pkg">>)
    /\ PersistedPackages(Tag590) =
           << <<"mac_x64", <<"radare2", "-">> \o Tag590 \o <<"-", "amd64", ".", "pkg">> >> >>

\* C19: a call of update_radare2_profiles that ends in a failed request
\* leaves profiles.json as it was, absent if it was absent; and a
\* profiles.json that exists holds a whole catalog, never an empty or a
\* partial one.
C19_FailedFetchWritesNothing ==
    /\ [][ update_result' \in Responses \ {"ok"} => profiles_json' = profiles_json ]_vars
    /\ [](profiles_json # <<>> =>
            \/ profiles_json = <<OldProfiles>>
            \/ /\ update_result # "none"
               /\ profiles_json[1] # <<>>
               /\ Len(PersistedVersions) = 1 + Len(gh_release_info))

\* a regeneration has succeeded and a later one has failed on the network
C19_Witness ==
    /\ update_result = "ConnectionError"
    /\ profiles_json # <<>>
    /\ profiles_json # <<OldProfiles>>
    /\ Len(gh_release_info) = 2

----------------------------------------------------------------------------
(* Claims about a package manager that outlives its catalog (checked under *)
(* SpecReload).                                                            *)

\* the outcomes after which install_package removes the destination
\* directory itself: the strategy returned failure, or the (package,
\* version) is not in the catalog
RolledBackOutcomes ==
    {"PackageManagerException:build_failed", "PackageManagerException:install_failed",
     "PackageManagerException:not_available"}

\* C17: an install_package call for a key that is installed, whose strategy
\* reports failure or whose (package, version) is no longer in the catalog,
\* removes the directory of the key with what it held, and the key is not
\* in list_installed_packages afterwards.
C17_FailedReinstallRemovesInstalled ==
    [][ (/\ last'.op = "install"
         /\ last'.key \in list_installed_packages
         /\ last'.outcome \in RolledBackOutcomes)
        => /\ last'.key \notin list_installed_packages'
           /\ last'.key \notin built' ]_vars

\* radare2@5.9.0 was installed from its .deb, the catalog was regenerated
\* without that release and loaded, and a new install has removed it
C17_Witness ==
    /\ last.op = "install"
    /\ last.key = dst_name(radare2, Tag590)
    /\ last.outcome = "PackageManagerException:not_available"
    /\ packages = profiles(ReloadReleases)
    /\ radare2 \in sys_pkgs
    /\ last.key \notin list_installed_packages

====
